---------------------------- MODULE Spec2Model ----------------------------
(***************************************************************************)
(* A model of the jobly model layer: the partial-update SET-clause builder *)
(* (helpers/sql.js), the filter-clause assembly of Job.findAll and         *)
(* Company.findAll, and the create/get/update/remove operations of the Job *)
(* and Company classes against the jobs and companies tables.              *)
(*                                                                         *)
(* JavaScript values are tagged tuples: <<"string", s>>, <<"number", n>>,  *)
(* <<"boolean", b>> and <<"undefined">>.  SQL text is a TLA+ string, built *)
(* by concatenation exactly as the template literals build it, and the     *)
(* database side reads the text back (placeholders, column names, the      *)
(* predicates of a WHERE clause) to run the statement.                     *)
(*                                                                         *)
(* Spec runs each call whole, one at a time.  SpecGetRace and              *)
(* SpecCreateRace run the two methods that await two statements, Job.get   *)
(* and Company.create, one statement at a time for several clients at      *)
(* once: a statement is atomic, the method is not.                         *)
(***************************************************************************)
EXTENDS Integers, Sequences, FiniteSets, TLC

VARIABLES jobs, companies, nextId, last, inflight

vars == <<jobs, companies, nextId, last, inflight>>

(***************************************************************************)
(* JavaScript values                                                       *)
(***************************************************************************)
Undefined == <<"undefined">>

Str(s) == <<"string", s>>

Num(n) == <<"number", n>>

Bool(b) == <<"boolean", b>>

\* JavaScript truthiness, as used by `if (x)` and `a || b`.
Truthy(v) ==
  CASE v[1] = "undefined" -> FALSE
    [] v[1] = "string" -> v[2] # ""
    [] v[1] = "number" -> v[2] # 0
    [] v[1] = "boolean" -> v[2]

\* The text a template literal `${v}` produces.
ToStr(v) ==
  CASE v[1] = "undefined" -> "undefined"
    [] v[1] = "string" -> v[2]
    [] v[1] = "number" -> ToString(v[2])
    [] v[1] = "boolean" -> IF v[2] THEN "true" ELSE "false"

\* An object literal is the sequence of its <<key, value>> properties in
\* insertion order; obj[key] is undefined for a key it does not hold.
ObjKeys(obj) == [i \in 1..Len(obj) |-> obj[i][1]]

ObjValues(obj) == [i \in 1..Len(obj) |-> obj[i][2]]

ObjGet(obj, key) ==
  IF \E i \in 1..Len(obj) : obj[i][1] = key
  THEN obj[CHOOSE i \in 1..Len(obj) : obj[i][1] = key][2]
  ELSE Undefined

\* Array.prototype.join
RECURSIVE Join(_, _)
Join(parts, sep) ==
  IF Len(parts) = 0 THEN ""
  ELSE IF Len(parts) = 1 THEN parts[1]
  ELSE parts[1] \o sep \o Join(Tail(parts), sep)

\* String.prototype.slice(0, -n)
SliceOffEnd(s, n) == IF Len(s) > n THEN SubSeq(s, 1, Len(s) - n) ELSE ""

(***************************************************************************)
(* helpers/sql.js                                                          *)
(***************************************************************************)
\* ColumnFor without the lookup in jsToSql.
ColumnForUnmapped(jsToSql, colName) == Str(colName)

\* `jsToSql[colName] || colName`
ColumnFor(jsToSql, colName) ==
  IF Truthy(ObjGet(jsToSql, colName)) THEN ObjGet(jsToSql, colName) ELSE Str(colName)

\* SetFragment with the placeholder numbered from the 0-based index.
SetFragmentZeroBased(jsToSql, colName, idx) ==
  "\"" \o ToStr(ColumnFor(jsToSql, colName)) \o "\"=$" \o ToString(idx)

\* `"${jsToSql[colName] || colName}"=$${idx + 1}` for the key at 0-based idx
SetFragment(jsToSql, colName, idx) ==
  "\"" \o ToStr(ColumnFor(jsToSql, colName)) \o "\"=$" \o ToString(idx + 1)

\* sqlForPartialUpdate without its check for an empty dataToUpdate.
sqlForPartialUpdateUnchecked(dataToUpdate, jsToSql) ==
  LET keys == ObjKeys(dataToUpdate)
      cols == [i \in 1..Len(keys) |-> SetFragment(jsToSql, keys[i], i - 1)]
  IN  [throws |-> "none", setCols |-> Join(cols, ", "), values |-> ObjValues(dataToUpdate)]

sqlForPartialUpdate(dataToUpdate, jsToSql) ==
  LET keys == ObjKeys(dataToUpdate)
      cols == [i \in 1..Len(keys) |-> SetFragment(jsToSql, keys[i], i - 1)]
  IN  IF Len(keys) = 0
      THEN [throws |-> "BadRequestError", setCols |-> "", values |-> <<>>]
      ELSE [throws |-> "none",
            setCols |-> Join(cols, ", "),
            values |-> ObjValues(dataToUpdate)]


(***************************************************************************)
(* Text utilities of the database side                                     *)
(***************************************************************************)
StartsWith(s, pre) == Len(s) >= Len(pre) /\ SubSeq(s, 1, Len(pre)) = pre

EndsWith(s, suf) ==
  Len(s) >= Len(suf) /\ SubSeq(s, Len(s) - Len(suf) + 1, Len(s)) = suf

DropPrefix(s, pre) == SubSeq(s, Len(pre) + 1, Len(s))

DropSuffix(s, suf) == SubSeq(s, 1, Len(s) - Len(suf))

\* The first position at which sub occurs in s, 0 when it does not occur.
IndexOf(s, sub) ==
  LET hits == {i \in 1..(Len(s) - Len(sub) + 1) : SubSeq(s, i, i + Len(sub) - 1) = sub}
  IN  IF hits = {} THEN 0 ELSE CHOOSE i \in hits : \A j \in hits : i <= j

\* The pieces of s between occurrences of sep.
RECURSIVE Split(_, _)
Split(s, sep) ==
  LET at == IndexOf(s, sep)
  IN  IF at = 0 THEN <<s>>
      ELSE <<SubSeq(s, 1, at - 1)>> \o Split(SubSeq(s, at + Len(sep), Len(s)), sep)

Digits == "0123456789"

IsDigit(c) == Len(c) = 1 /\ IndexOf(Digits, c) > 0

\* The number a string of decimal digits denotes; -1 for any other text.
RECURSIVE ParseNatFrom(_, _)
ParseNatFrom(s, acc) ==
  IF s = "" THEN acc
  ELSE IF ~IsDigit(Head(s)) THEN -1
  ELSE ParseNatFrom(Tail(s), acc * 10 + (IndexOf(Digits, Head(s)) - 1))

ParseNat(s) == IF s = "" THEN -1 ELSE ParseNatFrom(s, 0)

\* A placeholder $k: k, or -1 when the text is not a placeholder.
ParsePlaceholder(s) ==
  IF StartsWith(s, "$") /\ ParseNat(DropPrefix(s, "$")) >= 1
  THEN ParseNat(DropPrefix(s, "$"))
  ELSE -1

UpperLetters == "ABCDEFGHIJKLMNOPQRSTUVWXYZ"

LowerLetters == "abcdefghijklmnopqrstuvwxyz"

LowerChar(c) ==
  IF IndexOf(UpperLetters, c) > 0
  THEN SubSeq(LowerLetters, IndexOf(UpperLetters, c), IndexOf(UpperLetters, c))
  ELSE c

\* SQL LOWER()
RECURSIVE Lower(_)
Lower(s) == IF s = "" THEN "" ELSE LowerChar(Head(s)) \o Lower(Tail(s))

\* SQL LIKE: % matches any run of characters, _ any one character.
RECURSIVE Like(_, _)
Like(s, pattern) ==
  IF pattern = "" THEN s = ""
  ELSE IF Head(pattern) = "%"
       THEN Like(s, Tail(pattern)) \/ (s # "" /\ Like(Tail(s), pattern))
  ELSE IF Head(pattern) = "_"
       THEN s # "" /\ Like(Tail(s), Tail(pattern))
  ELSE s # "" /\ Head(s) = Head(pattern) /\ Like(Tail(s), Tail(pattern))

\* The order of ORDER BY on text: character by character, by code point
\* (the characters that occur in the modelled texts).
CodePoints == " %-.0123456789ABCDEFGHIJKLMNOPQRSTUVWXYZ_abcdefghijklmnopqrstuvwxyz"

RECURSIVE TextLeq(_, _)
TextLeq(s, t) ==
  IF s = "" THEN TRUE
  ELSE IF t = "" THEN FALSE
  ELSE IF Head(s) = Head(t) THEN TextLeq(Tail(s), Tail(t))
  ELSE IndexOf(CodePoints, Head(s)) < IndexOf(CodePoints, Head(t))

\* A NUMERIC value, held as its decimal text, is > 0 when a digit of it is not 0.
NumericPositive(s) ==
  ~StartsWith(s, "-") /\ \E i \in 1..Len(s) : IndexOf("123456789", SubSeq(s, i, i)) > 0

(***************************************************************************)
(* The database: the jobs and companies tables and the execution of the    *)
(* statements the models send with db.query(text, values).  A row is a     *)
(* function from column name to value.  A statement is held as its verb,   *)
(* its table and the dynamic text the model interpolated into it.          *)
(***************************************************************************)
JobColumns == {"id", "title", "salary", "equity", "company_handle"}

CompanyColumns == {"handle", "name", "description", "num_employees", "logo_url"}

ColumnsOf(table) == IF table = "jobs" THEN JobColumns ELSE CompanyColumns

\* One assignment `"column"=$k` of a SET list: <<column, k>>, k = -1 if malformed.
ParseAssignment(text) ==
  LET at == IndexOf(text, "\"=")
  IN  IF StartsWith(text, "\"") /\ at > 1
      THEN <<SubSeq(text, 2, at - 1), ParsePlaceholder(SubSeq(text, at + 2, Len(text)))>>
      ELSE <<"", -1>>

ParseSet(setCols) ==
  LET parts == Split(setCols, ", ")
  IN  [i \in 1..Len(parts) |-> ParseAssignment(parts[i])]

\* One predicate of a WHERE clause: [kind, col, idx]; kind "error" if malformed.
ParsePredicate(text) ==
  IF StartsWith(text, "LOWER(") /\ IndexOf(text, ") LIKE LOWER(") > 0 /\ EndsWith(text, ")")
  THEN LET at == IndexOf(text, ") LIKE LOWER(")
           ph == ParsePlaceholder(SubSeq(text, at + 13, Len(text) - 1))
       IN  [kind |-> IF ph < 1 THEN "error" ELSE "ilike",
            col |-> SubSeq(text, 7, at - 1), idx |-> ph]
  ELSE IF IndexOf(text, " >= ") > 0
  THEN LET at == IndexOf(text, " >= ")
           ph == ParsePlaceholder(SubSeq(text, at + 4, Len(text)))
       IN  [kind |-> IF ph < 1 THEN "error" ELSE ">=",
            col |-> SubSeq(text, 1, at - 1), idx |-> ph]
  ELSE IF IndexOf(text, " <= ") > 0
  THEN LET at == IndexOf(text, " <= ")
           ph == ParsePlaceholder(SubSeq(text, at + 4, Len(text)))
       IN  [kind |-> IF ph < 1 THEN "error" ELSE "<=",
            col |-> SubSeq(text, 1, at - 1), idx |-> ph]
  ELSE IF IndexOf(text, " = ") > 0
  THEN LET at == IndexOf(text, " = ")
           ph == ParsePlaceholder(SubSeq(text, at + 3, Len(text)))
       IN  [kind |-> IF ph < 1 THEN "error" ELSE "=",
            col |-> SubSeq(text, 1, at - 1), idx |-> ph]
  ELSE IF EndsWith(text, " > 0")
  THEN [kind |-> ">0", col |-> DropSuffix(text, " > 0"), idx |-> 0]
  ELSE [kind |-> "error", col |-> "", idx |-> 0]

\* The predicates of a WHERE clause (none for the empty clause).
ParseWhere(clause) ==
  IF clause = "" THEN <<>>
  ELSE IF ~StartsWith(clause, "WHERE ")
  THEN <<[kind |-> "error", col |-> "", idx |-> 0]>>
  ELSE LET parts == Split(DropPrefix(clause, "WHERE "), " AND ")
       IN  [i \in 1..Len(parts) |-> ParsePredicate(parts[i])]

\* The type of each column: what a value bound to it must be.
ColumnType(col) ==
  IF col \in {"id", "salary", "num_employees"} THEN "number" ELSE "string"

PredicateTyped(pred, values) ==
  CASE pred.kind = "ilike" ->
         ColumnType(pred.col) = "string" /\ values[pred.idx][1] = "string"
    [] pred.kind \in {">=", "<="} ->
         ColumnType(pred.col) = "number" /\ values[pred.idx][1] = "number"
    [] pred.kind = "=" -> values[pred.idx][1] = ColumnType(pred.col)
    [] pred.kind = ">0" -> TRUE

\* The placeholders a statement uses must be $1..$n with n the number of
\* values bound, every column must be one of the table's, and every value
\* must be of its column's type.
WhereOk(table, preds, from, values) ==
  /\ \A i \in 1..Len(preds) :
       /\ preds[i].kind # "error"
       /\ preds[i].col \in ColumnsOf(table)
       /\ preds[i].idx <= Len(values)
       /\ preds[i].kind # ">0" => preds[i].idx >= from
       /\ PredicateTyped(preds[i], values)
  /\ \A k \in from..Len(values) : \E i \in 1..Len(preds) : preds[i].idx = k

SetOk(table, assigns, upto, values) ==
  /\ \A i \in 1..Len(assigns) :
       /\ assigns[i][2] \in 1..upto
       /\ assigns[i][1] \in ColumnsOf(table)
       /\ values[assigns[i][2]][1] = ColumnType(assigns[i][1])
       /\ \A j \in 1..Len(assigns) : assigns[j][1] = assigns[i][1] => j = i
  /\ \A k \in 1..upto : \E i \in 1..Len(assigns) : assigns[i][2] = k

Holds(pred, row, values) ==
  CASE pred.kind = "ilike" -> Like(Lower(row[pred.col][2]), Lower(values[pred.idx][2]))
    [] pred.kind = ">=" -> row[pred.col][2] >= values[pred.idx][2]
    [] pred.kind = "<=" -> row[pred.col][2] <= values[pred.idx][2]
    [] pred.kind = "=" -> row[pred.col] = values[pred.idx]
    [] pred.kind = ">0" ->
         IF row[pred.col][1] = "number" THEN row[pred.col][2] > 0
         ELSE NumericPositive(row[pred.col][2])

Matching(rows, preds, values) ==
  {r \in rows : \A i \in 1..Len(preds) : Holds(preds[i], r, values)}

\* SELECT ... FROM table <where>: the rows selected, or an error.
DbSelect(table, rows, where, values) ==
  LET preds == ParseWhere(where)
  IN  IF ~WhereOk(table, preds, 1, values)
      THEN [error |-> TRUE, rows |-> {}]
      ELSE [error |-> FALSE, rows |-> Matching(rows, preds, values)]

\* The row after the assignments of a SET list.
Assigned(row, assigns, values) ==
  [c \in DOMAIN row |->
     IF \E i \in 1..Len(assigns) : assigns[i][1] = c
     THEN values[assigns[CHOOSE i \in 1..Len(assigns) : assigns[i][1] = c][2]]
     ELSE row[c]]

\* An UPDATE whose WHERE clause selects every row.
DbUpdateEveryRow(table, rows, setCols, where, values) ==
  LET assigns == ParseSet(setCols)
      preds == ParseWhere(where)
      nset == Len(values) - Len(preds)
  IN  IF ~(nset >= 1 /\ SetOk(table, assigns, nset, values)
            /\ WhereOk(table, preds, nset + 1, values))
      THEN [error |-> TRUE, table |-> rows, rows |-> {}]
      ELSE [error |-> FALSE,
            table |-> {Assigned(r, assigns, values) : r \in rows},
            rows |-> {Assigned(r, assigns, values) : r \in rows}]

\* UPDATE table SET <setCols> <where> RETURNING ...: the table afterwards and
\* the rows updated, as they are afterwards.
DbUpdate(table, rows, setCols, where, values) ==
  LET assigns == ParseSet(setCols)
      preds == ParseWhere(where)
      nset == Len(values) - Len(preds)
  IN  IF ~(nset >= 1 /\ SetOk(table, assigns, nset, values)
            /\ WhereOk(table, preds, nset + 1, values))
      THEN [error |-> TRUE, table |-> rows, rows |-> {}]
      ELSE LET hit == Matching(rows, preds, values)
           IN  [error |-> FALSE,
                table |-> (rows \ hit) \cup {Assigned(r, assigns, values) : r \in hit},
                rows |-> {Assigned(r, assigns, values) : r \in hit}]

\* DELETE FROM table <where> RETURNING ...
DbDelete(table, rows, where, values) ==
  LET preds == ParseWhere(where)
  IN  IF ~WhereOk(table, preds, 1, values)
      THEN [error |-> TRUE, table |-> rows, rows |-> {}]
      ELSE [error |-> FALSE,
            table |-> rows \ Matching(rows, preds, values),
            rows |-> Matching(rows, preds, values)]

\* The sequences that hold each row of a set once, ordered by a text column.
OrderedBy(rows, col) ==
  {q \in [1..Cardinality(rows) -> rows] :
     /\ \A r \in rows : \E i \in DOMAIN q : q[i] = r
     /\ \A i \in 1..(Cardinality(rows) - 1) : TextLeq(q[i][col][2], q[i + 1][col][2])}

(***************************************************************************)
(* models/job.js                                                           *)
(***************************************************************************)
\* A jobs row as the object a query returns for
\* `id, title, salary, equity, company_handle AS "companyHandle"`.
JobObject(row) ==
  [id |-> row["id"], title |-> row["title"], salary |-> row["salary"],
   equity |-> row["equity"], companyHandle |-> row["company_handle"]]

\* ... and for `title, salary, equity, company_handle AS "companyHandle"`.
JobListObject(row) ==
  [title |-> row["title"], salary |-> row["salary"],
   equity |-> row["equity"], companyHandle |-> row["company_handle"]]

Query(verb, table, text, values) ==
  [verb |-> verb, table |-> table, text |-> text, values |-> values]

\* Job.create: one INSERT; the id is the next value of the table's sequence.
\* company_handle refers to a stored company (Job.get reads the company of
\* every job it finds and dereferences it unguarded): the INSERT of a job
\* for a handle no company has is refused by the database.
Job_create(jobRows, companyRows, id, data) ==
  LET values == <<data.title, data.salary, data.equity, data.companyHandle>>
      row == [c \in JobColumns |->
               CASE c = "id" -> Num(id)
                 [] c = "title" -> values[1]
                 [] c = "salary" -> values[2]
                 [] c = "equity" -> values[3]
                 [] c = "company_handle" -> values[4]]
      q == Query("INSERT", "jobs", "title, salary, equity, company_handle", values)
  IN  IF \E c \in companyRows : c["handle"] = data.companyHandle
      THEN [outcome |-> "ok", result |-> JobObject(row),
            jobs |-> jobRows \cup {row}, queries |-> <<q>>]
      ELSE [outcome |-> "DbError", result |-> Undefined,
            jobs |-> jobRows, queries |-> <<q>>]

\* The filter clause and values Job.findAll builds before it queries.
JobFilterAfterTitle(title) ==
  IF Truthy(title)
  THEN LET values == <<Str("%" \o ToStr(title) \o "%")>>
       IN  [values |-> values,
            filterClause |-> "LOWER(title) LIKE LOWER($" \o ToString(Len(values)) \o ") AND "]
  ELSE [values |-> <<>>, filterClause |-> ""]

\* JobFilterAfterMinSalary with a placeholder counter of its own.
JobFilterAfterMinSalaryOwnCounter(f, minSalary) ==
  IF Truthy(minSalary)
  THEN [values |-> Append(f.values, minSalary),
        filterClause |-> f.filterClause \o "salary >= $1 AND "]
  ELSE f

\* JobFilterAfterMinSalary testing `minSalary !== undefined`.
JobFilterAfterMinSalaryIfDefined(f, minSalary) ==
  IF minSalary # Undefined
  THEN LET values == Append(f.values, minSalary)
       IN  [values |-> values,
            filterClause |-> f.filterClause \o "salary >= $" \o ToString(Len(values)) \o " AND "]
  ELSE f

JobFilterAfterMinSalary(f, minSalary) ==
  IF Truthy(minSalary)
  THEN LET values == Append(f.values, minSalary)
       IN  [values |-> values,
            filterClause |-> f.filterClause \o "salary >= $" \o ToString(Len(values)) \o " AND "]
  ELSE f

JobFilterAfterHasEquity(f, hasEquity) ==
  IF Truthy(hasEquity)
  THEN [values |-> f.values, filterClause |-> f.filterClause \o "equity > 0 AND "]
  ELSE f

\* FilterFinish slicing four characters off the end, not five.
FilterFinishSliceFour(f) ==
  IF Len(f.filterClause) > 0
  THEN [values |-> f.values, filterClause |-> "WHERE " \o SliceOffEnd(f.filterClause, 4)]
  ELSE f

FilterFinish(f) ==
  IF Len(f.filterClause) > 0
  THEN [values |-> f.values, filterClause |-> "WHERE " \o SliceOffEnd(f.filterClause, 5)]
  ELSE f

JobFilter(filter) ==
  FilterFinish(
    JobFilterAfterHasEquity(
      JobFilterAfterMinSalary(JobFilterAfterTitle(filter.title), filter.minSalary),
      filter.hasEquity))

\* Job.findAll: the outcomes it can have (ORDER BY title leaves the order of
\* rows with equal titles open).
Job_findAll(jobRows, filter) ==
  LET f == JobFilter(filter)
      q == Query("SELECT", "jobs", f.filterClause, f.values)
      res == DbSelect("jobs", jobRows, f.filterClause, f.values)
  IN  IF res.error
      THEN {[outcome |-> "DbError", result |-> <<>>, queries |-> <<q>>]}
      ELSE {[outcome |-> "ok",
             result |-> [i \in DOMAIN ordered |-> JobListObject(ordered[i])],
             queries |-> <<q>>] : ordered \in OrderedBy(res.rows, "title")}

\* Job.get: the job by id, then its company by handle.
Job_get(jobRows, companyRows, id) ==
  LET q1 == Query("SELECT", "jobs", "WHERE id = $1", <<id>>)
      jobRes == DbSelect("jobs", jobRows, q1.text, q1.values)
  IN  IF jobRes.error
      THEN [outcome |-> "DbError", result |-> Undefined, queries |-> <<q1>>]
      ELSE IF jobRes.rows = {}
      THEN [outcome |-> "NotFoundError", result |-> Undefined, queries |-> <<q1>>]
      ELSE LET job == JobObject(CHOOSE r \in jobRes.rows : TRUE)
               q2 == Query("SELECT", "companies", "WHERE handle = $1", <<job.companyHandle>>)
               companyRes == DbSelect("companies", companyRows, q2.text, q2.values)
           IN  IF companyRes.error
               THEN [outcome |-> "DbError", result |-> Undefined, queries |-> <<q1, q2>>]
               ELSE IF companyRes.rows = {}
               THEN [outcome |-> "TypeError", result |-> Undefined, queries |-> <<q1, q2>>]
               ELSE [outcome |-> "ok",
                     result |-> [job EXCEPT !.companyHandle =
                                   (CHOOSE c \in companyRes.rows : TRUE)["handle"]],
                     queries |-> <<q1, q2>>]

\* Job.get up to its first await: the job by id.  outcome "pending": the
\* method goes on to its second statement with `job` in hand.
Job_getLookup(jobRows, id) ==
  LET q1 == Query("SELECT", "jobs", "WHERE id = $1", <<id>>)
      jobRes == DbSelect("jobs", jobRows, q1.text, q1.values)
  IN  IF jobRes.error
      THEN [outcome |-> "DbError", job |-> Undefined, queries |-> <<q1>>]
      ELSE IF jobRes.rows = {}
      THEN [outcome |-> "NotFoundError", job |-> Undefined, queries |-> <<q1>>]
      ELSE [outcome |-> "pending", job |-> JobObject(CHOOSE r \in jobRes.rows : TRUE),
            queries |-> <<q1>>]

\* Job.get from its second statement on: the company by the job's handle;
\* `companyRes.rows[0].handle` of no row is a TypeError.
Job_getCompany(companyRows, job) ==
  LET q2 == Query("SELECT", "companies", "WHERE handle = $1", <<job.companyHandle>>)
      companyRes == DbSelect("companies", companyRows, q2.text, q2.values)
  IN  IF companyRes.error
      THEN [outcome |-> "DbError", result |-> Undefined, queries |-> <<q2>>]
      ELSE IF companyRes.rows = {}
      THEN [outcome |-> "TypeError", result |-> Undefined, queries |-> <<q2>>]
      ELSE [outcome |-> "ok",
            result |-> [job EXCEPT !.companyHandle =
                          (CHOOSE c \in companyRes.rows : TRUE)["handle"]],
            queries |-> <<q2>>]

\* Job.update with idVarIdx numbered values.length, not values.length + 1.
Job_updateIdAtLength(jobRows, id, data) ==
  LET built == sqlForPartialUpdate(data, <<>>)
      idVarIdx == "$" \o ToString(Len(built.values))
      q == Query("UPDATE", "jobs", <<built.setCols, "WHERE id = " \o idVarIdx>>,
                 Append(built.values, id))
      res == DbUpdate("jobs", jobRows, q.text[1], q.text[2], q.values)
  IN  IF built.throws # "none"
      THEN [outcome |-> built.throws, result |-> Undefined, jobs |-> jobRows, queries |-> <<>>]
      ELSE IF res.error
      THEN [outcome |-> "DbError", result |-> Undefined, jobs |-> jobRows, queries |-> <<q>>]
      ELSE IF res.rows = {}
      THEN [outcome |-> "NotFoundError", result |-> Undefined,
            jobs |-> res.table, queries |-> <<q>>]
      ELSE [outcome |-> "ok", result |-> JobObject(CHOOSE r \in res.rows : TRUE),
            jobs |-> res.table, queries |-> <<q>>]

\* Job.update: the SET list from sqlForPartialUpdate(data, {}), the id bound last.
Job_update(jobRows, id, data) ==
  LET built == sqlForPartialUpdate(data, <<>>)
      idVarIdx == "$" \o ToString(Len(built.values) + 1)
      q == Query("UPDATE", "jobs", <<built.setCols, "WHERE id = " \o idVarIdx>>,
                 Append(built.values, id))
      res == DbUpdate("jobs", jobRows, q.text[1], q.text[2], q.values)
  IN  IF built.throws # "none"
      THEN [outcome |-> built.throws, result |-> Undefined, jobs |-> jobRows, queries |-> <<>>]
      ELSE IF res.error
      THEN [outcome |-> "DbError", result |-> Undefined, jobs |-> jobRows, queries |-> <<q>>]
      ELSE IF res.rows = {}
      THEN [outcome |-> "NotFoundError", result |-> Undefined,
            jobs |-> res.table, queries |-> <<q>>]
      ELSE [outcome |-> "ok", result |-> JobObject(CHOOSE r \in res.rows : TRUE),
            jobs |-> res.table, queries |-> <<q>>]

\* Job.remove without its `if (!job) throw`.
Job_removeUnchecked(jobRows, id) ==
  LET q == Query("DELETE", "jobs", "WHERE id = $1", <<id>>)
      res == DbDelete("jobs", jobRows, q.text, q.values)
  IN  IF res.error
      THEN [outcome |-> "DbError", result |-> Undefined, jobs |-> jobRows, queries |-> <<q>>]
      ELSE [outcome |-> "ok", result |-> Undefined, jobs |-> res.table, queries |-> <<q>>]

\* Job.remove
Job_remove(jobRows, id) ==
  LET q == Query("DELETE", "jobs", "WHERE id = $1", <<id>>)
      res == DbDelete("jobs", jobRows, q.text, q.values)
  IN  IF res.error
      THEN [outcome |-> "DbError", result |-> Undefined, jobs |-> jobRows, queries |-> <<q>>]
      ELSE IF res.rows = {}
      THEN [outcome |-> "NotFoundError", result |-> Undefined,
            jobs |-> res.table, queries |-> <<q>>]
      ELSE [outcome |-> "ok", result |-> Undefined, jobs |-> res.table, queries |-> <<q>>]

(***************************************************************************)
(* models/company.js                                                       *)
(***************************************************************************)
\* A companies row as the object a query returns for `handle, name,
\* description, num_employees AS "numEmployees", logo_url AS "logoUrl"`.
CompanyObject(row) ==
  [handle |-> row["handle"], name |-> row["name"], description |-> row["description"],
   numEmployees |-> row["num_employees"], logoUrl |-> row["logo_url"]]

\* Company.create without its duplicate check.
Company_createUnchecked(companyRows, data) ==
  LET values == <<data.handle, data.name, data.description, data.numEmployees, data.logoUrl>>
      row == [c \in CompanyColumns |->
               CASE c = "handle" -> values[1]
                 [] c = "name" -> values[2]
                 [] c = "description" -> values[3]
                 [] c = "num_employees" -> values[4]
                 [] c = "logo_url" -> values[5]]
      q2 == Query("INSERT", "companies",
                  "handle, name, description, num_employees, logo_url", values)
  IN  IF \E c \in companyRows : c["handle"] = data.handle
      THEN [outcome |-> "DbError", result |-> Undefined,
            companies |-> companyRows, queries |-> <<q2>>]
      ELSE [outcome |-> "ok", result |-> CompanyObject(row),
            companies |-> companyRows \cup {row}, queries |-> <<q2>>]

\* Company.create: the duplicate check, then the INSERT (handle is the
\* table's key: the INSERT of a stored handle is refused by the database).
Company_create(companyRows, data) ==
  LET q1 == Query("SELECT", "companies", "WHERE handle = $1", <<data.handle>>)
      duplicateCheck == DbSelect("companies", companyRows, q1.text, q1.values)
      values == <<data.handle, data.name, data.description, data.numEmployees, data.logoUrl>>
      row == [c \in CompanyColumns |->
               CASE c = "handle" -> values[1]
                 [] c = "name" -> values[2]
                 [] c = "description" -> values[3]
                 [] c = "num_employees" -> values[4]
                 [] c = "logo_url" -> values[5]]
      q2 == Query("INSERT", "companies",
                  "handle, name, description, num_employees, logo_url", values)
  IN  IF duplicateCheck.error
      THEN [outcome |-> "DbError", result |-> Undefined,
            companies |-> companyRows, queries |-> <<q1>>]
      ELSE IF duplicateCheck.rows # {}
      THEN [outcome |-> "BadRequestError", result |-> Undefined,
            companies |-> companyRows, queries |-> <<q1>>]
      ELSE IF \E c \in companyRows : c["handle"] = data.handle
      THEN [outcome |-> "DbError", result |-> Undefined,
            companies |-> companyRows, queries |-> <<q1, q2>>]
      ELSE [outcome |-> "ok", result |-> CompanyObject(row),
            companies |-> companyRows \cup {row}, queries |-> <<q1, q2>>]

\* Company_createCheck without its `throw`.
Company_createCheckNoThrow(companyRows, data) ==
  LET q1 == Query("SELECT", "companies", "WHERE handle = $1", <<data.handle>>)
      duplicateCheck == DbSelect("companies", companyRows, q1.text, q1.values)
  IN  IF duplicateCheck.error
      THEN [outcome |-> "DbError", duplicateCheck |-> {}, queries |-> <<q1>>]
      ELSE [outcome |-> "pending", duplicateCheck |-> duplicateCheck.rows, queries |-> <<q1>>]

\* Company.create up to its first await and the throw after it: the
\* duplicate check.  outcome "pending": the method goes on to its INSERT.
Company_createCheck(companyRows, data) ==
  LET q1 == Query("SELECT", "companies", "WHERE handle = $1", <<data.handle>>)
      duplicateCheck == DbSelect("companies", companyRows, q1.text, q1.values)
  IN  IF duplicateCheck.error
      THEN [outcome |-> "DbError", duplicateCheck |-> {}, queries |-> <<q1>>]
      ELSE IF duplicateCheck.rows # {}
      THEN [outcome |-> "BadRequestError", duplicateCheck |-> duplicateCheck.rows,
            queries |-> <<q1>>]
      ELSE [outcome |-> "pending", duplicateCheck |-> duplicateCheck.rows, queries |-> <<q1>>]

\* Company.create from its INSERT on (handle is the table's key: the INSERT
\* of a stored handle is refused by the database, and the error propagates).
Company_createInsert(companyRows, data) ==
  LET values == <<data.handle, data.name, data.description, data.numEmployees, data.logoUrl>>
      row == [c \in CompanyColumns |->
               CASE c = "handle" -> values[1]
                 [] c = "name" -> values[2]
                 [] c = "description" -> values[3]
                 [] c = "num_employees" -> values[4]
                 [] c = "logo_url" -> values[5]]
      q2 == Query("INSERT", "companies",
                  "handle, name, description, num_employees, logo_url", values)
  IN  IF \E c \in companyRows : c["handle"] = data.handle
      THEN [outcome |-> "DbError", result |-> Undefined,
            companies |-> companyRows, queries |-> <<q2>>]
      ELSE [outcome |-> "ok", result |-> CompanyObject(row),
            companies |-> companyRows \cup {row}, queries |-> <<q2>>]

\* `minEmployees && maxEmployees && minEmployees > maxEmployees`
CompanyRangeRejected(minEmployees, maxEmployees) ==
  Truthy(minEmployees) /\ Truthy(maxEmployees) /\ minEmployees[2] > maxEmployees[2]

\* The filter clause and values Company.findAll builds before it queries.
CompanyFilterAfterName(name) ==
  IF Truthy(name)
  THEN LET values == <<Str("%" \o ToStr(name) \o "%")>>
       IN  [values |-> values,
            filterClause |-> "LOWER(name) LIKE LOWER($" \o ToString(Len(values)) \o ") AND "]
  ELSE [values |-> <<>>, filterClause |-> ""]

CompanyFilterAfterMin(f, minEmployees) ==
  IF Truthy(minEmployees)
  THEN LET values == Append(f.values, minEmployees)
       IN  [values |-> values,
            filterClause |->
              f.filterClause \o "num_employees >= $" \o ToString(Len(values)) \o " AND "]
  ELSE f

CompanyFilterAfterMax(f, maxEmployees) ==
  IF Truthy(maxEmployees)
  THEN LET values == Append(f.values, maxEmployees)
       IN  [values |-> values,
            filterClause |->
              f.filterClause \o "num_employees <= $" \o ToString(Len(values)) \o " AND "]
  ELSE f

CompanyFilter(filter) ==
  FilterFinish(
    CompanyFilterAfterMax(
      CompanyFilterAfterMin(CompanyFilterAfterName(filter.name), filter.minEmployees),
      filter.maxEmployees))

\* Company.findAll: the outcomes it can have.
Company_findAll(companyRows, filter) ==
  LET f == CompanyFilter(filter)
      q == Query("SELECT", "companies", f.filterClause, f.values)
      res == DbSelect("companies", companyRows, f.filterClause, f.values)
  IN  IF CompanyRangeRejected(filter.minEmployees, filter.maxEmployees)
      THEN {[outcome |-> "BadRequestError", result |-> <<>>, queries |-> <<>>]}
      ELSE IF res.error
      THEN {[outcome |-> "DbError", result |-> <<>>, queries |-> <<q>>]}
      ELSE {[outcome |-> "ok",
             result |-> [i \in DOMAIN ordered |-> CompanyObject(ordered[i])],
             queries |-> <<q>>] : ordered \in OrderedBy(res.rows, "name")}

\* Company.get: the company by handle, then its jobs (a set here: the query
\* states no order).
Company_get(companyRows, jobRows, handle) ==
  LET q1 == Query("SELECT", "companies", "WHERE handle = $1", <<handle>>)
      companyRes == DbSelect("companies", companyRows, q1.text, q1.values)
      q2 == Query("SELECT", "jobs", "WHERE company_handle = $1", <<handle>>)
      jobsRes == DbSelect("jobs", jobRows, q2.text, q2.values)
  IN  IF companyRes.error
      THEN [outcome |-> "DbError", result |-> Undefined, queries |-> <<q1>>]
      ELSE IF companyRes.rows = {}
      THEN [outcome |-> "NotFoundError", result |-> Undefined, queries |-> <<q1>>]
      ELSE IF jobsRes.error
      THEN [outcome |-> "DbError", result |-> Undefined, queries |-> <<q1, q2>>]
      ELSE [outcome |-> "ok",
            result |-> [company |-> CompanyObject(CHOOSE c \in companyRes.rows : TRUE),
                        jobs |-> {[id |-> r["id"], title |-> r["title"],
                                   salary |-> r["salary"], equity |-> r["equity"]]
                                  : r \in jobsRes.rows}],
            queries |-> <<q1, q2>>]

\* The jsToSql map Company.update passes to sqlForPartialUpdate.
CompanyJsToSql ==
  << <<"numEmployees", Str("num_employees")>>, <<"logoUrl", Str("logo_url")>> >>

\* Company.update
Company_update(companyRows, handle, data) ==
  LET built == sqlForPartialUpdate(data, CompanyJsToSql)
      handleVarIdx == "$" \o ToString(Len(built.values) + 1)
      q == Query("UPDATE", "companies",
                 <<built.setCols, "WHERE handle = " \o handleVarIdx>>,
                 Append(built.values, handle))
      res == DbUpdate("companies", companyRows, q.text[1], q.text[2], q.values)
  IN  IF built.throws # "none"
      THEN [outcome |-> built.throws, result |-> Undefined,
            companies |-> companyRows, queries |-> <<>>]
      ELSE IF res.error
      THEN [outcome |-> "DbError", result |-> Undefined,
            companies |-> companyRows, queries |-> <<q>>]
      ELSE IF res.rows = {}
      THEN [outcome |-> "NotFoundError", result |-> Undefined,
            companies |-> res.table, queries |-> <<q>>]
      ELSE [outcome |-> "ok", result |-> CompanyObject(CHOOSE r \in res.rows : TRUE),
            companies |-> res.table, queries |-> <<q>>]

\* Company.remove (the jobs of a removed company go with it).
Company_remove(companyRows, jobRows, handle) ==
  LET q == Query("DELETE", "companies", "WHERE handle = $1", <<handle>>)
      res == DbDelete("companies", companyRows, q.text, q.values)
      kept == {j \in jobRows : \A c \in res.rows : j["company_handle"] # c["handle"]}
  IN  IF res.error
      THEN [outcome |-> "DbError", result |-> Undefined,
            companies |-> companyRows, jobs |-> jobRows, queries |-> <<q>>]
      ELSE IF res.rows = {}
      THEN [outcome |-> "NotFoundError", result |-> Undefined,
            companies |-> res.table, jobs |-> kept, queries |-> <<q>>]
      ELSE [outcome |-> "ok", result |-> Undefined,
            companies |-> res.table, jobs |-> kept, queries |-> <<q>>]

(***************************************************************************)
(* The inputs the operations are called with                               *)
(***************************************************************************)
MaxJobId == 2

MaxFields == 2

MaxKeys == 3

MaxClients == 2

JobTitles == {"ab", "C_"}

Salaries == {1, 2}

Equities == {"0", "0.1"}

Handles == {"c1", "c2"}

CompanyNames == {"Ab", "Net"}

EmployeeCounts == {1, 2}

Descriptions == {"d"}

LogoUrls == {"u"}

\* The objects with at most maxLen properties, the keys distinct and taken
\* from DOMAIN fields, each value from the key's set, in every key order.
Objects(fields, maxLen) ==
  LET props == {<<k, v>> : k \in DOMAIN fields, v \in UNION {fields[f] : f \in DOMAIN fields}}
      ok == {pr \in props : pr[2] \in fields[pr[1]]}
  IN  UNION {{obj \in [1..n -> ok] :
                \A i, j \in 1..n : obj[i][1] = obj[j][1] => i = j}
             : n \in 0..maxLen}

\* The fields Job.update is given, one value each: data varies in the
\* fields it names and in their order.
JobUpdateFields ==
  [title |-> {Str("C_")},
   salary |-> {Num(2)},
   equity |-> {Str("0.1")}]

CompanyUpdateFields ==
  [name |-> {Str(n) : n \in CompanyNames},
   description |-> {Str(d) : d \in Descriptions},
   numEmployees |-> {Num(n) : n \in EmployeeCounts},
   logoUrl |-> {Str(u) : u \in LogoUrls}]

JobInputs ==
  [title : {Str(t) : t \in JobTitles}, salary : {Num(n) : n \in Salaries},
   equity : {Str(e) : e \in Equities}, companyHandle : {Str(h) : h \in Handles}]

CompanyInputs ==
  [handle : {Str(h) : h \in Handles}, name : {Str(n) : n \in CompanyNames},
   description : {Str(d) : d \in Descriptions},
   numEmployees : {Num(n) : n \in EmployeeCounts}, logoUrl : {Str(u) : u \in LogoUrls}]

JobFilters ==
  [title : {Undefined, Str(""), Str("c"), Str("_")},
   minSalary : {Undefined, Num(0), Num(2)},
   hasEquity : {Undefined, Bool(FALSE), Bool(TRUE)}]

CompanyFilters ==
  [name : {Undefined, Str(""), Str("n")},
   minEmployees : {Undefined, Num(0), Num(1), Num(2)},
   maxEmployees : {Undefined, Num(0), Num(1), Num(2)}]

JobIds == {Num(i) : i \in 0..MaxJobId}

HandleArgs == {Str(h) : h \in Handles}

\* The inputs sqlForPartialUpdate is called with on its own.
SqlFields ==
  [name |-> {Str("x")}, numEmployees |-> {Num(0), Num(7)}, logoUrl |-> {Str("")},
   age |-> {Num(32)}]

SqlMaps ==
  {m \in Objects([numEmployees |-> {Str("num_employees"), Str("")},
                  logoUrl |-> {Str("logo_url")}], 2) :
     \A i, j \in 1..Len(m) : i < j => m[i][1] = "numEmployees"}

(***************************************************************************)
(* The state: the two tables, the jobs id sequence, and the call in hand:  *)
(* its arguments, how it ended, what it returned and the statements it     *)
(* sent.  A call is made when none is in hand (each handler is modelled    *)
(* whole), and Return hands its result to the caller.  inflight holds the  *)
(* calls that SpecGetRace and SpecCreateRace run a statement at a time;    *)
(* Spec leaves it as it starts.                                            *)
(***************************************************************************)
Call(op, args, r) ==
  [op |-> op, args |-> args, outcome |-> r.outcome, result |-> r.result,
   queries |-> r.queries]

NoCall ==
  [op |-> "none", args |-> <<>>, outcome |-> "ok", result |-> Undefined, queries |-> <<>>]

Idle == last.op = "none"

CompanyRow(handle, name, description, numEmployees, logoUrl) ==
  [c \in CompanyColumns |->
     CASE c = "handle" -> Str(handle)
       [] c = "name" -> Str(name)
       [] c = "description" -> Str(description)
       [] c = "num_employees" -> Num(numEmployees)
       [] c = "logo_url" -> Str(logoUrl)]

InitCompanies == {CompanyRow("c1", "Ab", "d", 1, "u")}

\* The clients that call Job.get and Company.create a statement at a time,
\* and the call of a client: the method, the statement it is to send next
\* (pc), its arguments, its local variables `job` and `duplicateCheck` (the
\* rows), how it ended, what it returned and the statements it has sent.
Clients == 1..MaxClients

NotStarted ==
  [op |-> "none", pc |-> "idle", args |-> <<>>, job |-> Undefined, duplicateCheck |-> {},
   outcome |-> "pending", result |-> Undefined, queries |-> <<>>]

Init ==
  /\ jobs = {}
  /\ companies = InitCompanies
  /\ nextId = 1
  /\ last = NoCall
  /\ inflight = [p \in Clients |-> NotStarted]

\* The two tables are explored one at a time: jobs are created over the
\* initial companies, companies are created, updated and removed while no
\* job has been created, and sqlForPartialUpdate, which reads neither table,
\* is called on its own over the initial tables.
JobsScope == companies = InitCompanies

CompaniesScope == nextId = 1

HelperScope == JobsScope /\ CompaniesScope

SqlInputs == Objects(SqlFields, MaxKeys)

JobUpdateData == Objects(JobUpdateFields, MaxFields)

CompanyUpdateData == Objects(CompanyUpdateFields, MaxFields)

SqlForPartialUpdate ==
  /\ Idle
  /\ HelperScope
  /\ \E dataToUpdate \in SqlInputs, jsToSql \in SqlMaps :
       \E r \in {sqlForPartialUpdate(dataToUpdate, jsToSql)} :
         /\ last' = [op |-> "sqlForPartialUpdate", args |-> <<dataToUpdate, jsToSql>>,
                     outcome |-> IF r.throws = "none" THEN "ok" ELSE r.throws,
                     result |-> r, queries |-> <<>>]
         /\ UNCHANGED <<jobs, companies, nextId, inflight>>

JobCreate ==
  /\ Idle
  /\ JobsScope
  /\ nextId <= MaxJobId
  /\ \E data \in JobInputs : \E r \in {Job_create(jobs, companies, nextId, data)} :
       /\ jobs' = r.jobs
       /\ nextId' = IF r.outcome = "ok" THEN nextId + 1 ELSE nextId
       /\ last' = Call("Job.create", <<data>>, r)
       /\ UNCHANGED <<companies, inflight>>

JobFindAll ==
  /\ Idle
  /\ \E filter \in JobFilters : \E r \in Job_findAll(jobs, filter) :
       /\ last' = Call("Job.findAll", <<filter>>, r)
       /\ UNCHANGED <<jobs, companies, nextId, inflight>>

JobGet ==
  /\ Idle
  /\ \E id \in JobIds : \E r \in {Job_get(jobs, companies, id)} :
       /\ last' = Call("Job.get", <<id>>, r)
       /\ UNCHANGED <<jobs, companies, nextId, inflight>>

JobUpdate ==
  /\ Idle
  /\ \E id \in JobIds, data \in JobUpdateData : \E r \in {Job_update(jobs, id, data)} :
       /\ jobs' = r.jobs
       /\ last' = Call("Job.update", <<id, data>>, r)
       /\ UNCHANGED <<companies, nextId, inflight>>

JobRemove ==
  /\ Idle
  /\ \E id \in JobIds : \E r \in {Job_remove(jobs, id)} :
       /\ jobs' = r.jobs
       /\ last' = Call("Job.remove", <<id>>, r)
       /\ UNCHANGED <<companies, nextId, inflight>>

CompanyCreate ==
  /\ Idle
  /\ CompaniesScope
  /\ \E data \in CompanyInputs : \E r \in {Company_create(companies, data)} :
       /\ companies' = r.companies
       /\ last' = Call("Company.create", <<data>>, r)
       /\ UNCHANGED <<jobs, nextId, inflight>>

CompanyFindAll ==
  /\ Idle
  /\ \E filter \in CompanyFilters : \E r \in Company_findAll(companies, filter) :
       /\ last' = Call("Company.findAll", <<filter>>, r)
       /\ UNCHANGED <<jobs, companies, nextId, inflight>>

CompanyGet ==
  /\ Idle
  /\ \E handle \in HandleArgs : \E r \in {Company_get(companies, jobs, handle)} :
       /\ last' = Call("Company.get", <<handle>>, r)
       /\ UNCHANGED <<jobs, companies, nextId, inflight>>

CompanyUpdate ==
  /\ Idle
  /\ CompaniesScope
  /\ \E handle \in HandleArgs, data \in CompanyUpdateData :
       \E r \in {Company_update(companies, handle, data)} :
         /\ companies' = r.companies
         /\ last' = Call("Company.update", <<handle, data>>, r)
         /\ UNCHANGED <<jobs, nextId, inflight>>

CompanyRemove ==
  /\ Idle
  /\ CompaniesScope
  /\ \E handle \in HandleArgs : \E r \in {Company_remove(companies, jobs, handle)} :
       /\ companies' = r.companies
       /\ jobs' = r.jobs
       /\ last' = Call("Company.remove", <<handle>>, r)
       /\ UNCHANGED <<nextId, inflight>>

Return ==
  /\ ~Idle
  /\ last' = NoCall
  /\ UNCHANGED <<jobs, companies, nextId, inflight>>

Next ==
  \/ SqlForPartialUpdate
  \/ JobCreate \/ JobFindAll \/ JobGet \/ JobUpdate \/ JobRemove
  \/ CompanyCreate \/ CompanyFindAll \/ CompanyGet \/ CompanyUpdate \/ CompanyRemove
  \/ Return

Spec == Init /\ [][Next]_vars

(***************************************************************************)
(* Job.get among concurrent requests.  Each client calls Job.get once, its *)
(* two statements as two steps; between them the updates and removals of   *)
(* jobs and companies, one statement each, run whole.                      *)
(***************************************************************************)
JobRow(id, title, salary, equity, companyHandle) ==
  [c \in JobColumns |->
     CASE c = "id" -> Num(id)
       [] c = "title" -> Str(title)
       [] c = "salary" -> Num(salary)
       [] c = "equity" -> Str(equity)
       [] c = "company_handle" -> Str(companyHandle)]

InitJobs == {JobRow(1, "ab", 1, "0.1", "c1")}

InitGetRace ==
  /\ jobs = InitJobs
  /\ companies = InitCompanies
  /\ nextId = 2
  /\ last = NoCall
  /\ inflight = [p \in Clients |-> NotStarted]

\* The data of the concurrent updates: one field each.
RaceJobUpdateData == {d \in JobUpdateData : Len(d) = 1 /\ d[1][1] = "title"}

RaceCompanyUpdateData == {d \in CompanyUpdateData : Len(d) = 1 /\ d[1][1] = "name"}

JobGetLookup(p) ==
  /\ inflight[p].pc = "idle"
  /\ \E id \in JobIds : \E r \in {Job_getLookup(jobs, id)} :
       inflight' = [inflight EXCEPT ![p] =
                      [op |-> "Job.get",
                       pc |-> IF r.outcome = "pending" THEN "company" ELSE "done",
                       args |-> <<id>>, job |-> r.job, duplicateCheck |-> {},
                       outcome |-> r.outcome, result |-> Undefined, queries |-> r.queries]]
  /\ UNCHANGED <<jobs, companies, nextId, last>>

JobGetCompany(p) ==
  /\ inflight[p].op = "Job.get"
  /\ inflight[p].pc = "company"
  /\ \E r \in {Job_getCompany(companies, inflight[p].job)} :
       inflight' = [inflight EXCEPT ![p] =
                      [@ EXCEPT !.pc = "done", !.outcome = r.outcome, !.result = r.result,
                                !.queries = @ \o r.queries]]
  /\ UNCHANGED <<jobs, companies, nextId, last>>

ConcurrentJobUpdate ==
  /\ \E id \in JobIds, data \in RaceJobUpdateData : jobs' = Job_update(jobs, id, data).jobs
  /\ UNCHANGED <<companies, nextId, last, inflight>>

ConcurrentJobRemove ==
  /\ \E id \in JobIds : jobs' = Job_remove(jobs, id).jobs
  /\ UNCHANGED <<companies, nextId, last, inflight>>

ConcurrentCompanyUpdate ==
  /\ \E handle \in HandleArgs, data \in RaceCompanyUpdateData :
       companies' = Company_update(companies, handle, data).companies
  /\ UNCHANGED <<jobs, nextId, last, inflight>>

ConcurrentCompanyRemove ==
  /\ \E handle \in HandleArgs : \E r \in {Company_remove(companies, jobs, handle)} :
       /\ companies' = r.companies
       /\ jobs' = r.jobs
  /\ UNCHANGED <<nextId, last, inflight>>

NextGetRace ==
  \/ \E p \in Clients : JobGetLookup(p)
  \/ \E p \in Clients : JobGetCompany(p)
  \/ ConcurrentJobUpdate
  \/ ConcurrentJobRemove
  \/ ConcurrentCompanyUpdate
  \/ ConcurrentCompanyRemove

SpecGetRace == InitGetRace /\ [][NextGetRace]_vars

(***************************************************************************)
(* Company.create by several clients at once: each client calls it once,   *)
(* the duplicate check and the INSERT as two steps.                        *)
(***************************************************************************)
CompanyCreateCheck(p) ==
  /\ inflight[p].pc = "idle"
  /\ \E data \in CompanyInputs : \E r \in {Company_createCheck(companies, data)} :
       inflight' = [inflight EXCEPT ![p] =
                      [op |-> "Company.create",
                       pc |-> IF r.outcome = "pending" THEN "insert" ELSE "done",
                       args |-> <<data>>, job |-> Undefined,
                       duplicateCheck |-> r.duplicateCheck,
                       outcome |-> r.outcome, result |-> Undefined, queries |-> r.queries]]
  /\ UNCHANGED <<jobs, companies, nextId, last>>

CompanyCreateInsert(p) ==
  /\ inflight[p].op = "Company.create"
  /\ inflight[p].pc = "insert"
  /\ \E r \in {Company_createInsert(companies, inflight[p].args[1])} :
       /\ companies' = r.companies
       /\ inflight' = [inflight EXCEPT ![p] =
                         [@ EXCEPT !.pc = "done", !.outcome = r.outcome, !.result = r.result,
                                   !.queries = @ \o r.queries]]
  /\ UNCHANGED <<jobs, nextId, last>>

NextCreateRace ==
  \/ \E p \in Clients : CompanyCreateCheck(p)
  \/ \E p \in Clients : CompanyCreateInsert(p)

SpecCreateRace == Init /\ [][NextCreateRace]_vars

(***************************************************************************)
(* Properties                                                              *)
(***************************************************************************)
HelperCalled == last.op = "sqlForPartialUpdate"

\* C1: for every non-empty dataToUpdate and every jsToSql, setCols read back
\* as a SET list holds one "column"=$i assignment per key, the i-th key's
\* numbered $i, and values holds as many values, the i-th the i-th key's.
C1_PlaceholdersAlignWithValues ==
  (HelperCalled /\ Len(last.args[1]) > 0) =>
    LET data == last.args[1]
        assigns == ParseSet(last.result.setCols)
    IN  /\ last.outcome = "ok"
        /\ Len(assigns) = Len(data)
        /\ Len(last.result.values) = Len(data)
        /\ \A i \in 1..Len(data) :
             /\ assigns[i][2] = i
             /\ last.result.values[i] = data[i][2]

C1_Witness ==
  /\ HelperCalled
  /\ Len(last.args[1]) = 3
  /\ Len(last.args[2]) = 2
  /\ last.result.values[1] # last.result.values[2]

\* C2: an empty update payload is always rejected: sqlForPartialUpdate({}, m)
\* throws BadRequestError for every m, and Job.update and Company.update with
\* empty data throw it having sent no statement and changed no table.
C2_EmptyPayloadRejected ==
  [][/\ (last'.op = "sqlForPartialUpdate" /\ last'.args[1] = <<>>) =>
          last'.outcome = "BadRequestError"
     /\ (last'.op \in {"Job.update", "Company.update"} /\ last'.args[2] = <<>>) =>
          /\ last'.outcome = "BadRequestError"
          /\ last'.queries = <<>>
          /\ UNCHANGED <<jobs, companies, nextId>>]_vars

C2_Witness ==
  /\ last.op = "Job.update"
  /\ last.args[2] = <<>>
  /\ last.outcome = "BadRequestError"
  /\ \E j \in jobs : j["id"] = last.args[1]

\* The column names of the assignments of a SET list.
SetColumns(setCols) == [i \in 1..Len(ParseSet(setCols)) |-> ParseSet(setCols)[i][1]]

HasKey(obj, key) == \E i \in 1..Len(obj) : obj[i][1] = key

C4_InvertedRangeRejected ==
  (/\ last.op = "Company.findAll"
   /\ last.args[1].minEmployees[1] = "number"
   /\ last.args[1].maxEmployees[1] = "number"
   /\ last.args[1].minEmployees[2] > last.args[1].maxEmployees[2]) =>
    (last.outcome = "BadRequestError" /\ last.queries = <<>>)

\* The filters of a findAll call that are active (truthy), in the order the
\* code tests them, each with the kind and column of its predicate and the
\* value it binds (none for the presence flag).
Wrapped(text) == Str("%" \o text[2] \o "%")

ActiveJobFilters(filter) ==
  (IF Truthy(filter.title)
   THEN <<[kind |-> "ilike", col |-> "title", value |-> <<Wrapped(filter.title)>>]>>
   ELSE <<>>)
  \o (IF Truthy(filter.minSalary)
      THEN <<[kind |-> ">=", col |-> "salary", value |-> <<filter.minSalary>>]>>
      ELSE <<>>)
  \o (IF Truthy(filter.hasEquity)
      THEN <<[kind |-> ">0", col |-> "equity", value |-> <<>>]>>
      ELSE <<>>)

ActiveCompanyFilters(filter) ==
  (IF Truthy(filter.name)
   THEN <<[kind |-> "ilike", col |-> "name", value |-> <<Wrapped(filter.name)>>]>>
   ELSE <<>>)
  \o (IF Truthy(filter.minEmployees)
      THEN <<[kind |-> ">=", col |-> "num_employees", value |-> <<filter.minEmployees>>]>>
      ELSE <<>>)
  \o (IF Truthy(filter.maxEmployees)
      THEN <<[kind |-> "<=", col |-> "num_employees", value |-> <<filter.maxEmployees>>]>>
      ELSE <<>>)

\* A findAll call that got as far as its query.
Listed == last.op \in {"Job.findAll", "Company.findAll"} /\ Len(last.queries) = 1

ActiveFilters ==
  IF last.op = "Job.findAll" THEN ActiveJobFilters(last.args[1])
  ELSE ActiveCompanyFilters(last.args[1])

\* The text of a predicate, as SQL writes it.
PredicateText(pred) ==
  CASE pred.kind = "ilike" ->
         "LOWER(" \o pred.col \o ") LIKE LOWER($" \o ToString(pred.idx) \o ")"
    [] pred.kind \in {">=", "<=", "="} ->
         pred.col \o " " \o pred.kind \o " $" \o ToString(pred.idx)
    [] pred.kind = ">0" -> pred.col \o " > 0"
    [] OTHER -> "?"

\* C5: the filter clause of a findAll is empty, with no values, when no
\* filter is active, and otherwise is "WHERE " followed by one predicate per
\* active filter, the predicates joined by " AND " and nothing else.
C5_ClauseIsWhereOfActivePredicates ==
  Listed =>
    LET clause == last.queries[1].text
        preds == ParseWhere(clause)
    IN  IF Len(ActiveFilters) = 0
        THEN clause = "" /\ last.queries[1].values = <<>>
        ELSE /\ Len(preds) = Len(ActiveFilters)
             /\ \A i \in 1..Len(preds) :
                  preds[i].kind = ActiveFilters[i].kind /\ preds[i].col = ActiveFilters[i].col
             /\ clause =
                  "WHERE " \o Join([i \in 1..Len(preds) |-> PredicateText(preds[i])], " AND ")

C5_Witness ==
  /\ Listed
  /\ last.op = "Job.findAll"
  /\ Len(ActiveFilters) = 3

\* The predicates of a sequence that bind a value.
RECURSIVE Binding(_)
Binding(preds) ==
  IF Len(preds) = 0 THEN <<>>
  ELSE (IF preds[1].kind = ">0" THEN <<>> ELSE <<preds[1]>>) \o Binding(Tail(preds))

\* The position of a predicate kind in the fixed order text match, lower
\* bound, upper bound, presence flag.
KindRank(kind) ==
  CASE kind = "ilike" -> 1 [] kind = ">=" -> 2 [] kind = "<=" -> 3 [] kind = ">0" -> 4
    [] OTHER -> 0

\* C6: the predicates of a findAll come in the order text match, lower
\* bound, upper bound, presence flag; those that bind a value use $1..$n in
\* that order, n the number of values, and values[i] is the value of the
\* filter whose predicate uses $i (the text wrapped in %); the presence flag
\* uses no placeholder.
C6_PlaceholdersNumberTheValues ==
  Listed =>
    LET preds == ParseWhere(last.queries[1].text)
        values == last.queries[1].values
        binding == Binding(preds)
        expected == Binding(ActiveFilters)
    IN  /\ \A i \in 1..Len(preds) : KindRank(preds[i].kind) > 0
        /\ \A i, j \in 1..Len(preds) : i < j => KindRank(preds[i].kind) < KindRank(preds[j].kind)
        /\ Len(binding) = Len(values)
        /\ Len(expected) = Len(values)
        /\ \A i \in 1..Len(binding) :
             /\ binding[i].idx = i
             /\ binding[i].kind = expected[i].kind
             /\ values[i] = expected[i].value[1]
        /\ \A i \in 1..Len(preds) : preds[i].kind = ">0" => preds[i].idx = 0

C6_Witness ==
  /\ Listed
  /\ last.op = "Job.findAll"
  /\ Len(ActiveFilters) = 3
  /\ Len(last.queries[1].values) = 2
  /\ last.outcome = "ok"
  /\ Len(last.result) > 0

\* Whether s contains sub, compared without regard to letter case.
ContainsIgnoreCase(s, sub) == IndexOf(Lower(s), Lower(sub)) > 0 \/ sub = ""

\* Whether a jobs row satisfies every active filter of a Job.findAll, as the
\* claim reads them: the title contains the text whatever the letter case,
\* the salary is at least minSalary, the equity is above zero.
JobSatisfies(row, filter) ==
  /\ Truthy(filter.title) => ContainsIgnoreCase(row["title"][2], filter.title[2])
  /\ Truthy(filter.minSalary) => row["salary"][2] >= filter.minSalary[2]
  /\ Truthy(filter.hasEquity) => NumericPositive(row["equity"][2])

\* C7 as claimed: Job.findAll(filter) returns exactly the stored jobs that
\* satisfy every active filter, each once, in ascending order of title (all
\* the stored jobs for an empty filter).
C7_ListsExactlyTheSatisfyingJobs ==
  last.op = "Job.findAll" =>
    /\ last.outcome = "ok"
    /\ \A i \in 1..(Len(last.result) - 1) :
         TextLeq(last.result[i].title[2], last.result[i + 1].title[2])
    /\ \E ordered \in OrderedBy({j \in jobs : JobSatisfies(j, last.args[1])}, "title") :
         last.result = [i \in DOMAIN ordered |-> JobListObject(ordered[i])]

\* The part of C7 that holds: every stored job that satisfies every active
\* filter is in the result of Job.findAll, and the result is in ascending
\* order of title.
C7_SatisfyingJobsAreListed ==
  last.op = "Job.findAll" =>
    /\ last.outcome = "ok"
    /\ \A i \in 1..(Len(last.result) - 1) :
         TextLeq(last.result[i].title[2], last.result[i + 1].title[2])
    /\ \A j \in jobs :
         JobSatisfies(j, last.args[1]) =>
           \E i \in 1..Len(last.result) : last.result[i] = JobListObject(j)

JobStored(id) == \E j \in jobs : j["id"] = id

CompanyStored(handle) == \E c \in companies : c["handle"] = handle

\* C8: Job.get, Job.update with data and Job.remove called with an id no
\* stored job has, and Company.get, Company.update with data and
\* Company.remove called with a handle no stored company has, throw
\* NotFoundError and change no row.
C8_AbsentKeyIsNotFound ==
  [][/\ (last'.op \in {"Job.get", "Job.remove"} /\ ~JobStored(last'.args[1])) =>
          (last'.outcome = "NotFoundError" /\ UNCHANGED <<jobs, companies, nextId>>)
     /\ (last'.op = "Job.update" /\ last'.args[2] # <<>> /\ ~JobStored(last'.args[1])) =>
          (last'.outcome = "NotFoundError" /\ UNCHANGED <<jobs, companies, nextId>>)
     /\ (last'.op \in {"Company.get", "Company.remove"} /\ ~CompanyStored(last'.args[1])) =>
          (last'.outcome = "NotFoundError" /\ UNCHANGED <<jobs, companies, nextId>>)
     /\ (last'.op = "Company.update" /\ last'.args[2] # <<>>
           /\ ~CompanyStored(last'.args[1])) =>
          (last'.outcome = "NotFoundError" /\ UNCHANGED <<jobs, companies, nextId>>)]_vars

C8_Witness ==
  /\ last.op = "Job.update"
  /\ last.outcome = "NotFoundError"
  /\ Len(last.args[2]) = 2
  /\ Cardinality(jobs) = 2

\* C9: Company.create with a handle a stored company has throws
\* BadRequestError, sends no INSERT and leaves the companies as they were;
\* with a handle no stored company has it adds one row, the company given,
\* and returns it.
C9_CreateRefusesStoredHandle ==
  [][last'.op = "Company.create" =>
       LET data == last'.args[1]
       IN  IF CompanyStored(data.handle)
           THEN /\ last'.outcome = "BadRequestError"
                /\ \A i \in 1..Len(last'.queries) : last'.queries[i].verb # "INSERT"
                /\ UNCHANGED <<jobs, companies, nextId>>
           ELSE /\ last'.outcome = "ok"
                /\ last'.result = data
                /\ \E row \in companies' :
                     /\ CompanyObject(row) = data
                     /\ row \notin companies
                     /\ companies' = companies \cup {row}
                /\ UNCHANGED <<jobs, nextId>>]_vars

C9_Witness ==
  /\ last.op = "Company.create"
  /\ last.outcome = "BadRequestError"
  /\ Cardinality(companies) = 2

\* The keys of an object.
KeySet(obj) == {obj[i][1] : i \in 1..Len(obj)}

\* C10: a Job.update or Company.update that returns changes, in the row
\* whose id or handle is the one given, no field but those data names,
\* changes no other row of either table, and returns the row as it is
\* afterwards.
C10_UpdateChangesOnlyNamedFields ==
  [][/\ (last'.op = "Job.update" /\ last'.outcome = "ok") =>
          \E old \in jobs, new \in jobs' :
            /\ old["id"] = last'.args[1]
            /\ new["id"] = last'.args[1]
            /\ jobs' \ {new} = jobs \ {old}
            /\ \A f \in DOMAIN JobObject(old) \ KeySet(last'.args[2]) :
                 JobObject(new)[f] = JobObject(old)[f]
            /\ last'.result = JobObject(new)
            /\ UNCHANGED <<companies, nextId>>
     /\ (last'.op = "Company.update" /\ last'.outcome = "ok") =>
          \E old \in companies, new \in companies' :
            /\ old["handle"] = last'.args[1]
            /\ new["handle"] = last'.args[1]
            /\ companies' \ {new} = companies \ {old}
            /\ \A f \in DOMAIN CompanyObject(old) \ KeySet(last'.args[2]) :
                 CompanyObject(new)[f] = CompanyObject(old)[f]
            /\ last'.result = CompanyObject(new)
            /\ UNCHANGED <<jobs, nextId>>]_vars

C10_Witness ==
  /\ last.op = "Company.update"
  /\ last.outcome = "ok"
  /\ Cardinality(companies) = 2
  /\ KeySet(last.args[2]) = {"numEmployees", "name"}
  /\ last.result.numEmployees = Num(2)

\* The Job.get calls of SpecGetRace that have ended.
GetEnded == {p \in Clients : inflight[p].op = "Job.get" /\ inflight[p].pc = "done"}

\* C11 as claimed: however the two lookups of a Job.get interleave with the
\* updates and removals of jobs and companies, the call ends by returning
\* the job record or by throwing NotFoundError, nothing else, having sent
\* one lookup of the job and at most one lookup of its company.
C11_GetReturnsJobOrNotFound ==
  \A p \in GetEnded :
    /\ inflight[p].outcome \in {"ok", "NotFoundError"}
    /\ Len(inflight[p].queries) \in 1..2
    /\ inflight[p].queries[1].table = "jobs"
    /\ Len(inflight[p].queries) = 2 => inflight[p].queries[2].table = "companies"
    /\ inflight[p].outcome = "ok" =>
         /\ inflight[p].result = inflight[p].job
         /\ inflight[p].result.id = inflight[p].args[1]

\* The part of C11 that holds: a Job.get sends one lookup of the job and at
\* most one lookup of its company, and ends by returning the job record, by
\* throwing NotFoundError after the first lookup found no job, or by
\* throwing a TypeError after the second lookup found no company.
C11_GetSendsAtMostTwoLookups ==
  \A p \in GetEnded :
    /\ inflight[p].outcome \in {"ok", "NotFoundError", "TypeError"}
    /\ Len(inflight[p].queries) \in 1..2
    /\ \A i \in 1..Len(inflight[p].queries) : inflight[p].queries[i].verb = "SELECT"
    /\ inflight[p].queries[1].table = "jobs"
    /\ Len(inflight[p].queries) = 2 => inflight[p].queries[2].table = "companies"
    /\ inflight[p].outcome = "NotFoundError" => Len(inflight[p].queries) = 1
    /\ inflight[p].outcome = "TypeError" =>
         (Len(inflight[p].queries) = 2 /\ inflight[p].job.id = inflight[p].args[1])
    /\ inflight[p].outcome = "ok" =>
         /\ inflight[p].result = inflight[p].job
         /\ inflight[p].result.id = inflight[p].args[1]

\* A Job.get that found its job, whose company was removed before the
\* second lookup.
C11_CompanyRemovedBetweenLookups ==
  \E p \in GetEnded :
    /\ Len(inflight[p].queries) = 2
    /\ inflight[p].job.id = inflight[p].args[1]
    /\ inflight[p].outcome = "TypeError"
    /\ ~CompanyStored(inflight[p].job.companyHandle)

\* C12: a Job.update or Company.update given n >= 1 fields sends exactly one
\* statement, an UPDATE whose WHERE clause is the one predicate that compares
\* the key column with placeholder $(n+1); the SET list uses $1..$n only; and
\* the values bound are the n values of data, in its key order (the values
\* the builder returns), followed by the key.
C12_KeyBoundToLastPlaceholder ==
  [][(last'.op \in {"Job.update", "Company.update"} /\ Len(last'.args[2]) >= 1) =>
       LET data == last'.args[2]
           n == Len(data)
           built == sqlForPartialUpdate(data, IF last'.op = "Job.update" THEN <<>>
                                              ELSE CompanyJsToSql)
       IN  /\ Len(last'.queries) = 1
           /\ last'.queries[1].verb = "UPDATE"
           /\ LET assigns == ParseSet(last'.queries[1].text[1])
                  preds == ParseWhere(last'.queries[1].text[2])
                  values == last'.queries[1].values
              IN  /\ Len(preds) = 1
                  /\ preds[1].kind = "="
                  /\ preds[1].col = (IF last'.op = "Job.update" THEN "id" ELSE "handle")
                  /\ preds[1].idx = n + 1
                  /\ Len(assigns) = n
                  /\ \A i \in 1..n : assigns[i][2] \in 1..n
                  /\ Len(values) = n + 1
                  /\ values = built.values \o <<last'.args[1]>>
                  /\ \A i \in 1..n : values[i] = data[i][2]
                  /\ values[n + 1] = last'.args[1]]_vars

C12_Witness ==
  /\ last.op = "Job.update"
  /\ last.outcome = "ok"
  /\ Len(last.args[2]) = 2
  /\ Len(last.queries[1].values) = 3
  /\ last.queries[1].values[3] = last.args[1]

\* The Company.create calls of SpecCreateRace for a handle, and those of
\* them that have ended, returned a record, sent an INSERT.
CreatesOf(h) ==
  {p \in Clients : inflight[p].op = "Company.create" /\ inflight[p].args[1].handle = Str(h)}

Ended(p) == inflight[p].pc = "done"

Returned(p) == Ended(p) /\ inflight[p].outcome = "ok"

SentInsert(p) == \E i \in 1..Len(inflight[p].queries) : inflight[p].queries[i].verb = "INSERT"

StoredOf(h) == {c \in companies : c["handle"] = Str(h)}

StoredAtStart(h) == \E c \in InitCompanies : c["handle"] = Str(h)

\* No call whose duplicate check observed the handle sends an INSERT: it
\* has thrown BadRequestError.
ObservedNeverInserts ==
  \A p \in Clients :
    (inflight[p].op = "Company.create" /\ inflight[p].duplicateCheck # {}) =>
      (Ended(p) /\ inflight[p].outcome = "BadRequestError" /\ ~SentInsert(p))

\* C13 as claimed: among concurrent Company.create calls for one handle, a
\* call whose duplicate check observed the handle sends no INSERT, and once
\* the calls have ended exactly one of them has returned a record, every
\* other has thrown BadRequestError or the error of the database, and one
\* company has the handle.
C13_ExactlyOneCreateReturns ==
  /\ ObservedNeverInserts
  /\ \A h \in Handles :
       (CreatesOf(h) # {} /\ \A p \in CreatesOf(h) : Ended(p)) =>
         /\ Cardinality({p \in CreatesOf(h) : Returned(p)}) = 1
         /\ \A p \in CreatesOf(h) :
              ~Returned(p) => inflight[p].outcome \in {"BadRequestError", "DbError"}
         /\ Cardinality(StoredOf(h)) = 1

\* C13, amended: as claimed for a handle no company has when the calls
\* begin, the company stored being the one the returning call was given;
\* for a handle a company has already, no call returns a record, each
\* throws BadRequestError, and that company stays the one with the handle.
C13_OneCreateReturnsUnlessStored ==
  /\ ObservedNeverInserts
  /\ \A h \in Handles :
       /\ Cardinality(StoredOf(h)) <= 1
       /\ Cardinality({p \in CreatesOf(h) : Returned(p)}) <= 1
       /\ (CreatesOf(h) # {} /\ \A p \in CreatesOf(h) : Ended(p)) =>
            IF StoredAtStart(h)
            THEN /\ \A p \in CreatesOf(h) :
                      inflight[p].outcome = "BadRequestError" /\ ~SentInsert(p)
                 /\ StoredOf(h) \subseteq InitCompanies
                 /\ Cardinality(StoredOf(h)) = 1
            ELSE /\ Cardinality({p \in CreatesOf(h) : Returned(p)}) = 1
                 /\ \A p \in CreatesOf(h) :
                      IF Returned(p)
                      THEN /\ inflight[p].result = inflight[p].args[1]
                           /\ \A c \in StoredOf(h) : CompanyObject(c) = inflight[p].result
                      ELSE inflight[p].outcome \in {"BadRequestError", "DbError"}
                 /\ Cardinality(StoredOf(h)) = 1

\* Two calls for a new handle that both passed the duplicate check: one
\* returned, the INSERT of the other was refused.
C13_Witness ==
  \E p, q \in Clients :
    /\ p # q
    /\ inflight[p].args = inflight[q].args
    /\ Returned(p)
    /\ Ended(q)
    /\ inflight[q].outcome = "DbError"
    /\ SentInsert(q)

\* A filter value as the claim reads a falsy one: 0, the empty string and
\* false stand for an omitted filter.
Omitted(v) == IF v \in {Num(0), Str(""), Bool(FALSE)} THEN Undefined ELSE v

WithoutFalsy(filter) == [k \in DOMAIN filter |-> Omitted(filter[k])]

\* C14: a findAll whose filter holds falsy values (0, "", false) sends the
\* clause and binds the values that the same findAll builds with those
\* filters omitted (Company.findAll throwing for the same filters): a falsy
\* filter adds no value, and a filter of falsy values only gives the empty
\* clause and no values.
C14_FalsyFilterIsAbsent ==
  /\ last.op = "Job.findAll" =>
       LET given == WithoutFalsy(last.args[1])
       IN  /\ Len(last.queries) = 1
           /\ last.queries[1].text = JobFilter(given).filterClause
           /\ last.queries[1].values = JobFilter(given).values
           /\ Len(last.queries[1].values) =
                Cardinality({k \in {"title", "minSalary"} : given[k] # Undefined})
           /\ (\A k \in DOMAIN given : given[k] = Undefined) =>
                (last.queries[1].text = "" /\ last.queries[1].values = <<>>)
  /\ last.op = "Company.findAll" =>
       LET given == WithoutFalsy(last.args[1])
       IN  IF CompanyRangeRejected(given.minEmployees, given.maxEmployees)
           THEN last.outcome = "BadRequestError" /\ last.queries = <<>>
           ELSE /\ Len(last.queries) = 1
                /\ last.queries[1].text = CompanyFilter(given).filterClause
                /\ last.queries[1].values = CompanyFilter(given).values
                /\ Len(last.queries[1].values) =
                     Cardinality({k \in DOMAIN given : given[k] # Undefined})
                /\ (\A k \in DOMAIN given : given[k] = Undefined) =>
                     (last.queries[1].text = "" /\ last.queries[1].values = <<>>)

C14_Witness ==
  /\ last.op = "Job.findAll"
  /\ last.args[1].title = Str("")
  /\ last.args[1].minSalary = Num(0)
  /\ last.args[1].hasEquity = Bool(FALSE)
  /\ last.outcome = "ok"
  /\ Len(last.result) = 2
  /\ last.queries[1].text = ""

=============================================================================
